---- MODULE Spec2Model ----
(***************************************************************************)
(* Model of scikits/odes/dae.py: the dae front-end (set_integrator,        *)
(* set_initial_value, solve, successful), the integrator registry          *)
(* (find_dae_integrator) and the ddaspk backend (__init__, reset, _run,    *)
(* run, step).  The Fortran runner is external: it is a nondeterministic   *)
(* choice of the tuple (y1, y1prime, t, istate) it hands back.             *)
(*                                                                         *)
(* Conventions.  A Python attribute or argument that may be None or may be *)
(* missing is an optional: None is <<>>, Some(v) is <<v>>.  A value that   *)
(* numpy.isscalar distinguishes from a sequence is tagged: Scalar(v) or    *)
(* Array(s).  Strings that the code inspects with re.match are sequences   *)
(* of one-character strings.  Floats are small integers.  Python indexes   *)
(* from 0, TLA+ sequences from 1: a[i] in the code is a[i+1] here.         *)
(***************************************************************************)
EXTENDS Integers, Sequences, FiniteSets

\* ------------------------------------------------------------------ bounds

\* Largest problem size n = len(y) handed to set_initial_value.
MaxN == 2
\* Latest end time handed to solve.
MaxT == 1
\* Largest half-bandwidth (lband, uband) handed to the constructor.
MaxBand == 1

\* ------------------------------------------------------- values and strings

None == <<>>
Some(v) == <<v>>
Scalar(v) == [isscalar |-> TRUE, val |-> <<v>>]
Array(s) == [isscalar |-> FALSE, val |-> s]

Fill(n, v) == [i \in 1..n |-> v]

Min(S) == CHOOSE x \in S : \A z \in S : x <= z
Max(a, b) == IF a >= b THEN a ELSE b

\* re.I: case folding of the letters the inputs below use.
Lower(c) ==
    CASE c = "D" -> "d"
      [] c = "A" -> "a"
      [] c = "S" -> "s"
      [] c = "P" -> "p"
      [] c = "K" -> "k"
      [] c = "Y" -> "y"
      [] c = "O" -> "o"
      [] c = "E" -> "e"
      [] OTHER -> c

\* re.match(pattern, string, re.I) for a pattern of letters and digits only:
\* the pattern matches at the start of the string, so it matches iff it is a
\* case-insensitive prefix of the string (the empty pattern matches anything).
re_match(pattern, string) ==
    /\ Len(pattern) <= Len(string)
    /\ \A i \in 1..Len(pattern) : Lower(pattern[i]) = Lower(string[i])

\* cl.__name__ of the one backend class of the module.
ddaspk_name == <<"d", "d", "a", "s", "p", "k">>
\* The literals of ddaspk.__init__ that compute_initcond is matched against.
str_yprime0 == <<"y", "p", "r", "i", "m", "e", "0">>
str_yode0 == <<"y", "o", "d", "e", "0">>

\* Class attributes of ddaspk.
supports_run_relax == FALSE
supports_step == TRUE

\* Mutant of run_states: run also accepts the code of a single step.
run_states_wide == {1, 2, 3}

\* Accepted istate values of run and of step.
run_states == {2, 3}
step_states == {1, 2}

\* ---------------------------------------------------------------- inputs

\* Names handed to set_integrator: '', a mixed-case prefix of the class name,
\* and the name of an integrator this module does not have.
Names ==
    { <<>>,
      <<"D", "d", "A">>,
      <<"v", "o", "d", "e">> }

\* The keyword defaults of ddaspk.__init__.
DefaultOptions ==
    [ rtol |-> Scalar(1), atol |-> Scalar(1),
      lband |-> None, uband |-> None,
      tcrit |-> None,
      order |-> 5,
      nsteps |-> 500,
      max_step |-> 0,
      first_step |-> 0,
      enforce_nonnegativity |-> FALSE,
      compute_initcond |-> None,
      constraint_init |-> FALSE,
      constraint_type |-> None,
      algebraic_var |-> None ]

\* Tolerances: both scalar, both sequences of length MaxN, a scalar with a
\* sequence, sequences of different lengths.
TolOptions ==
    { [DefaultOptions EXCEPT !.rtol = Array(Fill(MaxN, 1)),
                             !.atol = Array(Fill(MaxN, 1))],
      [DefaultOptions EXCEPT !.atol = Array(Fill(MaxN, 1))],
      [DefaultOptions EXCEPT !.rtol = Array(Fill(1, 1)),
                             !.atol = Array(Fill(MaxN, 1))] }

\* Half-bandwidths: one given, both given; with the step-size options.
BandOptions ==
    { [DefaultOptions EXCEPT !.lband = Some(1)],
      [DefaultOptions EXCEPT !.uband = Some(1), !.order = 3],
      [DefaultOptions EXCEPT !.lband = Some(0), !.uband = Some(1),
                             !.tcrit = Some(2), !.max_step = 1,
                             !.first_step = 1] }

\* The order: below, at the ends of, and above its range.
OrderOptions ==
    { [DefaultOptions EXCEPT !.order = k] : k \in {0, 1, 6} }

\* Nonnegativity and constraint checking, with and without constraint_type.
ConstraintOptions ==
    { [DefaultOptions EXCEPT !.enforce_nonnegativity = TRUE],
      [DefaultOptions EXCEPT !.constraint_init = TRUE],
      [DefaultOptions EXCEPT !.constraint_init = TRUE,
                             !.constraint_type = Some(Scalar(1))],
      [DefaultOptions EXCEPT !.enforce_nonnegativity = TRUE,
                             !.constraint_init = TRUE,
                             !.constraint_type = Some(Array(Fill(MaxN, 2)))] }

\* compute_initcond: both selectors, a prefix of each, an unknown one; with
\* and without algebraic_var; with constraint checking on.
InitcondOptions ==
    { [DefaultOptions EXCEPT !.compute_initcond = Some(str_yprime0)],
      [DefaultOptions EXCEPT !.compute_initcond = Some(<<"y">>),
                             !.algebraic_var = Some(Fill(MaxN, 1))],
      [DefaultOptions EXCEPT !.compute_initcond = Some(str_yode0)],
      [DefaultOptions EXCEPT !.compute_initcond = Some(<<"Y", "O">>),
                             !.algebraic_var = Some(Fill(MaxN, 1))],
      [DefaultOptions EXCEPT !.compute_initcond = Some(<<"f", "o", "o">>)],
      [DefaultOptions EXCEPT !.compute_initcond = Some(str_yode0),
                             !.algebraic_var = Some(Fill(MaxN, 1)),
                             !.constraint_init = TRUE,
                             !.constraint_type = Some(Scalar(1))] }

OptionSets ==
    {DefaultOptions} \cup TolOptions \cup BandOptions \cup OrderOptions
        \cup ConstraintOptions \cup InitcondOptions

\* The calls of set_integrator: every option set under the name '', and the
\* other names with the defaults and with an order out of range.
IntegratorCalls ==
    { <<<<>>, o>> : o \in OptionSets }
        \cup { <<n, o>> : n \in Names,
                          o \in {DefaultOptions,
                                 [DefaultOptions EXCEPT !.order = 6]} }

\* The role of each component, algebraic_var: +1 differential, -1 algebraic.
Roles(n) == [i \in 1..n |-> IF i % 2 = 1 THEN 1 ELSE -1]

\* Options for the study of reset: every order of the range, every pair of
\* half-bandwidths (each absent or 0..MaxBand), every combination of the two
\* constraint switches with constraint_type absent, an int or an int array,
\* and each init-condition selector with and without algebraic_var.
Bands == {None} \cup {Some(k) : k \in 0..MaxBand}
ConstraintTypes == {None, Some(Scalar(2)), Some(Array(Fill(MaxN, 2)))}
InitcondPairs ==
    { <<None, None>>,
      <<Some(str_yprime0), None>>,
      <<Some(str_yprime0), Some(Roles(MaxN))>>,
      <<Some(str_yode0), Some(Roles(MaxN))>> }
ResetOptions ==
    { [DefaultOptions EXCEPT !.lband = l, !.uband = u, !.order = k,
                             !.enforce_nonnegativity = e,
                             !.constraint_init = c,
                             !.constraint_type = ct,
                             !.compute_initcond = ci[1],
                             !.algebraic_var = ci[2]] :
        l \in Bands, u \in Bands, k \in 1..5, e \in BOOLEAN, c \in BOOLEAN,
        ct \in ConstraintTypes, ci \in InitcondPairs }

\* Options for the study of the flags of reset: tolerances both scalars or
\* both sequences of length MaxN, tcrit absent or given, max_step and
\* first_step zero or positive, every order of the range.
FlagOptions ==
    { [DefaultOptions EXCEPT !.rtol = tol, !.atol = tol, !.tcrit = tc,
                             !.max_step = ms, !.first_step = fs,
                             !.order = k] :
        tol \in {Scalar(1), Array(Fill(MaxN, 1))}, tc \in {None, Some(2)},
        ms \in {0, 3}, fs \in {0, 1}, k \in 1..5 }

\* ------------------------------------------------------------ ddaspk class

\* 0-based element and slice assignment on a sequence: a[i] = v, a[lo:hi] = v.
SetAt(a, i, v) == [a EXCEPT ![i + 1] = v]
SetSlice(a, lo, hi, vals) ==
    [k \in 1..Len(a) |-> IF k > lo /\ k <= hi THEN vals[k - lo] ELSE a[k]]

\* numpy's rule for a[lo:lo+n] = src with a 1-d src: src has n elements, or
\* one element that is broadcast.
Broadcastable(src, n) == Len(src) = n \/ Len(src) = 1
Broadcast(src, n) == IF Len(src) = n THEN src ELSE Fill(n, src[1])

\* Mutant of reset_success: reset clears the flag.
reset_success_cleared == 1 - 1

\* Mutant of init_success: a new instance starts with the flag cleared.
init_success_pessimistic == 1 - 1

\* ddaspk.__init__, line 501, and ddaspk.reset, line 563: self.success = 1.
init_success == 1
reset_success == 1

\* Mutant of order_ok: only the upper end of the range is checked.
order_ok_upper(order) == ~(order > 5)

\* ddaspk.__init__, line 476: the order check (TRUE: the order is accepted).
order_ok(order) == ~(order > 5 \/ order < 1)

\* ddaspk.__init__, lines 482-485: self.nonneg.
nonneg_mode(enforce_nonnegativity, constraint_init) ==
    IF enforce_nonnegativity /\ constraint_init THEN 3
    ELSE IF enforce_nonnegativity THEN 2
    ELSE IF constraint_init THEN 1
    ELSE 0

\* ddaspk.__init__, lines 490-495: self.compute_initcond; -1 stands for the
\* ValueError of the else branch.  The user's string is the pattern.
initcond_mode(compute_initcond) ==
    IF compute_initcond = None THEN 0
    ELSE IF re_match(compute_initcond[1], str_yprime0) THEN 2
    ELSE IF re_match(compute_initcond[1], str_yode0) THEN 1
    ELSE -1

\* ddaspk.__init__: the constructed instance, or the ValueError it raises.
\* info, rwork, iwork and call_args are attributes only reset creates.
ddaspk_init(o) ==
    LET nonneg == nonneg_mode(o.enforce_nonnegativity, o.constraint_init)
        mode == initcond_mode(o.compute_initcond)
        bad == \/ ~order_ok(o.order)
               \/ (nonneg \in {1, 3} /\ o.constraint_type = None)
               \/ mode = -1
               \/ (mode = 1 /\ o.algebraic_var = None)
    IN  IF bad
        THEN [raised |-> "ValueError", obj |-> None]
        ELSE [raised |-> "none",
              obj |-> Some(
                [ rtol |-> o.rtol, atol |-> o.atol,
                  mu |-> o.uband, ml |-> o.lband,
                  tcrit |-> o.tcrit,
                  order |-> o.order,
                  nsteps |-> o.nsteps,
                  max_step |-> o.max_step,
                  first_step |-> o.first_step,
                  nonneg |-> nonneg,
                  constraint_type |-> o.constraint_type,
                  compute_initcond |-> mode,
                  algebraic_var |-> o.algebraic_var,
                  success |-> init_success,
                  info |-> None, rwork |-> None, iwork |-> None,
                  call_args |-> None,
                  info_shared |-> FALSE ])]

\* ddaspk.reset, lines 506-507: the condition of the tolerance ValueError.
tol_mismatch(atol, rtol) ==
    \/ atol.isscalar # rtol.isscalar
    \/ (~atol.isscalar /\ Len(atol.val) # Len(rtol.val))

\* Mutant of reset_lrw: a banded matrix gets the room of the finite-difference
\* Jacobian also when the user supplies the Jacobian.
reset_lrw_no_jac_test(n, order, ml, mu, info) ==
    LET base == 50 + Max(order + 4, 7) * n
    IN  IF info[6] = 0 THEN base + n * n
        ELSE base + (2 * ml[1] + mu[1] + 1) * n
                  + 2 * ((n \div (ml[1] + mu[1] + 1)) + 1)

\* Mutant of reset_lrw: the upper half-bandwidth enters the band width with
\* the wrong sign.
reset_lrw_minus_mu(n, order, ml, mu, info) ==
    LET base == 50 + Max(order + 4, 7) * n
    IN  IF info[6] = 0 THEN base + n * n
        ELSE IF info[5] = 0
        THEN base + (2 * ml[1] - mu[1] + 1) * n
                  + 2 * ((n \div (ml[1] + mu[1] + 1)) + 1)
        ELSE base + (2 * ml[1] - mu[1] + 1) * n

\* ddaspk.reset, lines 518-522: the length of rwork.
reset_lrw(n, order, ml, mu, info) ==
    LET base == 50 + Max(order + 4, 7) * n
    IN  IF info[6] = 0 THEN base + n * n
        ELSE IF info[5] = 0
        THEN base + (2 * ml[1] + mu[1] + 1) * n
                  + 2 * ((n \div (ml[1] + mu[1] + 1)) + 1)
        ELSE base + (2 * ml[1] + mu[1] + 1) * n

\* ddaspk.reset, lines 524-526: the length of iwork.
reset_liw(n, nonneg, compute_initcond) ==
    40 + n + (IF nonneg \in {1, 3} THEN n ELSE 0)
           + (IF compute_initcond # 0 THEN n ELSE 0)

\* Mutant of reset_lid: the role vector always starts at the base offset.
reset_lid_fixed(nonneg, n) == 40

\* ddaspk.reset, lines 548-550: the offset lid of the role vector in iwork.
reset_lid(nonneg, n) == IF nonneg = 1 \/ nonneg = 3 THEN 40 + n ELSE 40

\* Mutant of reset_banded: banded only if both half-bandwidths are given.
reset_banded_both(mu, ml) == mu # None /\ ml # None

\* Mutant of reset_banded: banded only while one half-bandwidth is missing.
reset_banded_one_missing(mu, ml) == (mu = None) # (ml = None)

\* ddaspk.reset, line 514: the matrix is banded if a half-bandwidth is given.
reset_banded(mu, ml) == mu # None \/ ml # None

\* Mutant of order_capped: the cap is also announced for the default order.
order_capped_always(order) == order <= 5

\* ddaspk.reset, line 542: the order is below the backend's default maximum.
order_capped(order) == order < 5

\* ddaspk.reset on instance b: the instance afterwards and what was raised.
\* An exception leaves the attributes assigned before it: self.info (a new
\* array, no longer the one call_args holds), self.mu, self.ml, self.rwork.
ddaspk_reset(b, n, has_jac) ==
    LET info0 == Fill(20, 0)
        info1 == IF ~b.atol.isscalar THEN SetAt(info0, 1, 1) ELSE info0
        info2 == IF has_jac THEN SetAt(info1, 4, 1) ELSE info1
        banded == reset_banded(b.mu, b.ml)
        mu == IF banded /\ b.mu = None THEN Some(0) ELSE b.mu
        ml == IF banded /\ b.ml = None THEN Some(0) ELSE b.ml
        info3 == IF banded THEN SetAt(info2, 5, 1) ELSE info2
        lrw == reset_lrw(n, b.order, ml, mu, info3)
        rwork0 == Fill(lrw, 0)
        liw == reset_liw(n, b.nonneg, b.compute_initcond)
        iwork0 == Fill(liw, 0)
        info4 == IF b.tcrit # None THEN SetAt(info3, 3, 1) ELSE info3
        rwork1 == IF b.tcrit # None THEN SetAt(rwork0, 0, b.tcrit[1]) ELSE rwork0
        info5 == IF b.max_step > 0 THEN SetAt(info4, 6, 1) ELSE info4
        rwork2 == IF b.max_step > 0 THEN SetAt(rwork1, 1, b.max_step) ELSE rwork1
        info6 == IF b.first_step > 0 THEN SetAt(info5, 7, 1) ELSE info5
        rwork3 == IF b.first_step > 0 THEN SetAt(rwork2, 2, b.first_step) ELSE rwork2
        iwork1 == IF ml # None THEN SetAt(iwork0, 0, ml[1]) ELSE iwork0
        iwork2 == IF mu # None THEN SetAt(iwork1, 1, mu[1]) ELSE iwork1
        info7 == IF order_capped(b.order) THEN SetAt(info6, 8, 1) ELSE info6
        iwork3 == IF order_capped(b.order) THEN SetAt(iwork2, 2, b.order)
                  ELSE iwork2
        iwork4 == SetAt(SetAt(iwork3, 5, b.nsteps), 6, 2)
        info8 == SetAt(info7, 9, b.nonneg)
        constrained == info8[10] = 1 \/ info8[10] = 3
        lid == reset_lid(info8[10], n)
        ctype == IF b.constraint_type = None THEN <<>>
                 ELSE IF b.constraint_type[1].isscalar
                 THEN Fill(n, b.constraint_type[1].val[1])
                 ELSE b.constraint_type[1].val
        ctype_bad == constrained /\ ~Broadcastable(ctype, n)
        iwork5 == IF constrained /\ ~ctype_bad
                  THEN SetSlice(iwork4, 40, lid, Broadcast(ctype, n))
                  ELSE iwork4
        info9 == SetAt(info8, 10, b.compute_initcond)
        initcond == info9[11] \in {1, 2}
        avar_none == initcond /\ b.algebraic_var = None
        avar_bad == initcond /\ b.algebraic_var # None
                             /\ ~Broadcastable(b.algebraic_var[1], n)
        iwork6 == IF initcond /\ ~avar_none /\ ~avar_bad
                  THEN SetSlice(iwork5, lid, lid + n,
                                Broadcast(b.algebraic_var[1], n))
                  ELSE iwork5
        partial(info, withwork) ==
            IF withwork
            THEN [b EXCEPT !.info = info, !.info_shared = FALSE,
                           !.mu = mu, !.ml = ml, !.rwork = rwork3]
            ELSE [b EXCEPT !.info = info, !.info_shared = FALSE]
    IN  IF tol_mismatch(b.atol, b.rtol)
        THEN [raised |-> "ValueError", obj |-> partial(info0, FALSE)]
        ELSE IF ctype_bad
        THEN [raised |-> "ValueError", obj |-> partial(info8, TRUE)]
        ELSE IF avar_none
        THEN [raised |-> "TypeError", obj |-> partial(info9, TRUE)]
        ELSE IF avar_bad
        THEN [raised |-> "ValueError", obj |-> partial(info9, TRUE)]
        ELSE [raised |-> "none",
              obj |-> [b EXCEPT !.info = info9, !.info_shared = TRUE,
                                !.mu = mu, !.ml = ml,
                                !.rwork = rwork3, !.iwork = iwork6,
                                !.call_args =
                                    Some([info |-> info9, rtol |-> b.rtol,
                                          atol |-> b.atol, rwork |-> rwork3,
                                          iwork |-> iwork6]),
                                !.success = reset_success]]

\* Mutant of run_success: a status accepted by run and by step alike sets the
\* flag again.
run_success_heals(success, states, istate) ==
    IF istate < 0 THEN 0
    ELSE IF istate \notin states THEN 0
    ELSE IF istate = 2 THEN 1
    ELSE success

\* Mutants of run_success: the flag follows the latest status; a negative
\* status does not clear it; the membership test is inverted.
run_success_latest(success, states, istate) ==
    IF istate < 0 THEN 0
    ELSE IF istate \notin states THEN 0
    ELSE 1
run_success_keeps_negative(success, states, istate) ==
    IF istate < 0 THEN success
    ELSE IF istate \notin states THEN 0
    ELSE success
run_success_inverted(success, states, istate) ==
    IF istate < 0 THEN 0
    ELSE IF istate \in states THEN 0
    ELSE success

\* ddaspk._run, lines 568-576: self.success after the runner returned istate.
run_success(success, states, istate) ==
    IF istate < 0 THEN 0
    ELSE IF istate \notin states THEN 0
    ELSE success

\* self.info[2] = v in ddaspk.step: the write also shows in call_args[0] when
\* that is the same array as self.info.
set_info2(b, v) ==
    IF b.info_shared /\ b.call_args # None
    THEN [b EXCEPT !.info = SetAt(b.info, 2, v),
                   !.call_args = Some([b.call_args[1] EXCEPT
                                         !.info = SetAt(b.info, 2, v)])]
    ELSE [b EXCEPT !.info = SetAt(b.info, 2, v)]

\* Mutant of ddaspk_run_states: an instance whose flag is cleared refuses to
\* run.
ddaspk_run_states_poisoned(b, states, args, out) ==
    IF b.call_args = None \/ b.success = 0
    THEN [raised |-> "AttributeError", obj |-> b, ret |-> None, seen |-> None]
    ELSE [raised |-> "none",
          obj |-> [b EXCEPT !.success = run_success(b.success, states, out.istate)],
          ret |-> Some([y |-> out.y, yprime |-> out.yprime, t |-> out.t]),
          seen |-> Some([y0 |-> args.y0, yprime0 |-> args.yprime0,
                         t0 |-> args.t0,
                         onestep |-> b.call_args[1].info[3]])]

\* ddaspk._run(states, *args): args are (y0, yprime0, t0, t1) of the call and
\* out is the tuple (y1, y1prime, t, istate) the runner returns for them.
\* Reading self.call_args is an AttributeError on an instance on which reset
\* never completed.  The result is (y1, y1prime, t); seen is what the runner
\* was called with: the starting point and, of call_args[0], the element
\* info[2].
ddaspk_run_states(b, states, args, out) ==
    IF b.call_args = None
    THEN [raised |-> "AttributeError", obj |-> b, ret |-> None, seen |-> None]
    ELSE [raised |-> "none",
          obj |-> [b EXCEPT !.success = run_success(b.success, states, out.istate)],
          ret |-> Some([y |-> out.y, yprime |-> out.yprime, t |-> out.t]),
          seen |-> Some([y0 |-> args.y0, yprime0 |-> args.yprime0,
                         t0 |-> args.t0,
                         onestep |-> b.call_args[1].info[3]])]

\* ddaspk.run.
ddaspk_run(b, args, out) == ddaspk_run_states(b, run_states, args, out)

\* ddaspk.step: info[2] is set, _run is called, info[2] is cleared; there is
\* no try/finally, so an exception of _run leaves info[2] set.
ddaspk_step(b, args, out) ==
    IF b.info = None
    THEN [raised |-> "AttributeError", obj |-> b, ret |-> None, seen |-> None]
    ELSE LET r == ddaspk_run_states(set_info2(b, 1), step_states, args, out)
         IN  IF r.raised # "none" THEN r
             ELSE [r EXCEPT !.obj = set_info2(r.obj, 0)]

\* DaeIntegratorBase.run_relax, which ddaspk does not override.
base_run_relax(b, args, out) ==
    [raised |-> "NotImplementedError", obj |-> b, ret |-> None, seen |-> None]

\* ------------------------------------------------------------------ state

VARIABLES
    integrator_classes, \* DaeIntegratorBase.integrator_classes: class names
    jac,                \* dae.jac: None, or Some(f) for a user Jacobian
    y, yprime,          \* dae.y, dae.yprime
    t,                  \* dae.t: None until the attribute is first assigned
    integrator,         \* dae._integrator: None while the attribute is missing
    last,               \* the last call on the dispatcher and how it ended
    hist                \* what has happened to the selected instance so far

vars == <<integrator_classes, jac, y, yprime, t, integrator, last, hist>>

\* Initial conditions handed to set_initial_value: a scalar or a sequence of
\* length 0..MaxN for y; for yprime a scalar, or a sequence as long as y.
YInputs == {Scalar(1)} \cup {Array(Fill(k, 1)) : k \in 0..MaxN}
YPrimeInputs(yin) == {Scalar(0), Array(Fill(Len(yin.val), 0))}
TInputs == {0}

\* End times handed to solve.
TTargets == 1..MaxT

\* What the external runner hands back for a call from (y0, yprime0, t0) to
\* t1: arrays of the shapes it was given, whose values are those of no
\* initial condition; a status code (negative, accepted by step only, by
\* both, by run only, by neither); and the stop time, which is t1 when the
\* code says the end was reached.
IStates == {-1, 1, 2, 3, 4}
RunnerOutputs(y0, yprime0, t0, t1) ==
    { [y |-> Fill(Len(y0), 2), yprime |-> Fill(Len(yprime0), 2),
       t |-> IF s \in {2, 3} THEN t1 ELSE t0, istate |-> s] :
        s \in IStates }

\* The record of a call: which, the exception that ended it ("none" if it
\* returned), and, where they apply: whether no registered class matched the
\* name (nomatch), which constructor check the options fail (bad), what solve
\* was asked (step, relax), the backend method it called (mth), the tuple the
\* runner was called with (start) and returned (ret, istate), the pair solve
\* returned (returned), the value successful() returned (result), and
\* whether a set_initial_value repeated, on the same instance and for the same
\* n, a reset that had just run to its end (again), whether its reset ran to
\* its end on an instance whose success flag was cleared (recovered), and
\* whether its reset assigned a half-bandwidth of the instance (defaulted).
NoCall ==
    [ call |-> "construct", raised |-> "none", nomatch |-> FALSE,
      bad |-> "none", step |-> FALSE, relax |-> FALSE, mth |-> "none",
      istate |-> 0, start |-> None, ret |-> None, returned |-> None,
      result |-> "none", again |-> FALSE, recovered |-> FALSE,
      defaulted |-> FALSE ]

\* The history of the selected instance: whether the runner has been invoked
\* on this dispatcher at all (solved), whether every runner status since the
\* instance was constructed or last completely reset was accepted by the
\* method used (clean), whether a reset has run to its end on the instance
\* since it was constructed (ready).
NoHist == [solved |-> FALSE, clean |-> TRUE, ready |-> FALSE]

\* The status codes the method mth documents as its expected stops.
Accepted(mth) == IF mth = "step" THEN {1, 2} ELSE {2, 3}

\* Which check of the constructor the options o fail, if any.
BadOption(o) ==
    IF o.order < 1 \/ o.order > 5 THEN "order"
    ELSE IF o.constraint_init /\ o.constraint_type = None THEN "constraint"
    ELSE IF initcond_mode(o.compute_initcond) = -1 THEN "selector"
    ELSE IF initcond_mode(o.compute_initcond) = 1 /\ o.algebraic_var = None
    THEN "role"
    ELSE "none"

\* No class of the registry matches the name.
NoMatch(name) ==
    \A i \in 1..Len(integrator_classes) : ~re_match(name, integrator_classes[i])

\* dae.__init__ with res and an optional jac, in a process where the import
\* of the Fortran module succeeded (ddaspk is registered) or failed.
Init ==
    /\ integrator_classes \in {<<>>, <<ddaspk_name>>}
    /\ jac \in {None, Some("jac")}
    /\ y = <<>>
    /\ yprime = <<>>
    /\ t = None
    /\ integrator = None
    /\ last = NoCall
    /\ hist = NoHist

\* ------------------------------------------------------------- dispatcher

\* Mutant of find_dae_integrator: the first registered class, whatever the name.
find_dae_integrator_first(name) ==
    IF Len(integrator_classes) = 0 THEN None ELSE Some(integrator_classes[1])

\* find_dae_integrator: the first registered class the name matches, or None.
find_dae_integrator(name) ==
    LET hits == {i \in 1..Len(integrator_classes) :
                    re_match(name, integrator_classes[i])}
    IN  IF hits = {} THEN None ELSE Some(integrator_classes[Min(hits)])

\* dae.set_integrator(name, **o) on the current state: the exception, and
\* the dispatcher's attributes afterwards.
set_integrator(name, o) ==
    LET cl == find_dae_integrator(name)
        same == [raised |-> "none", built |-> FALSE,
                 integrator |-> integrator, y |-> y, t |-> t]
    IN  IF cl = None THEN same
        ELSE LET c == ddaspk_init(o)
             IN  IF c.raised # "none"
                 THEN [same EXCEPT !.raised = c.raised]
                 ELSE [raised |-> "none", built |-> TRUE,
                       integrator |-> c.obj,
                       y |-> IF Len(y) = 0 THEN <<0>> ELSE y,
                       t |-> IF Len(y) = 0 THEN Some(0) ELSE t]

\* Mutant of solve_method: relax is honoured without asking the backend.
solve_method_relax_unchecked(step, relax, can_step, can_run_relax) ==
    IF step /\ can_step THEN "step"
    ELSE IF relax THEN "run_relax"
    ELSE "run"

\* dae.solve, lines 335-340: the backend method solve calls.
solve_method(step, relax, can_step, can_run_relax) ==
    IF step /\ can_step THEN "step"
    ELSE IF relax /\ can_run_relax THEN "run_relax"
    ELSE "run"

SetIntegrator(name, o) ==
    LET e == set_integrator(name, o)
    IN  /\ integrator' = e.integrator
        /\ y' = e.y
        /\ t' = e.t
        /\ last' = [NoCall EXCEPT !.call = "set_integrator",
                                  !.raised = e.raised,
                                  !.nomatch = NoMatch(name),
                                  !.bad = BadOption(o)]
        /\ hist' = IF e.built
                   THEN [hist EXCEPT !.clean = TRUE, !.ready = FALSE]
                   ELSE hist
        /\ UNCHANGED <<integrator_classes, jac, yprime>>

\* dae.set_initial_value(y, yprime, t).
SetInitialValue(yin, ypin, tin) ==
    LET e == IF Len(y) = 0
             THEN set_integrator(<<>>, DefaultOptions)
             ELSE [raised |-> "none", built |-> FALSE,
                   integrator |-> integrator, y |-> y, t |-> t]
        h == IF e.built
             THEN [hist EXCEPT !.clean = TRUE, !.ready = FALSE]
             ELSE hist
    IN  IF e.integrator = None
        THEN /\ integrator' = e.integrator
             /\ y' = e.y
             /\ t' = e.t
             /\ last' = [NoCall EXCEPT !.call = "set_initial_value",
                                       !.raised = "AttributeError"]
             /\ hist' = h
             /\ UNCHANGED <<integrator_classes, jac, yprime>>
        ELSE LET r == ddaspk_reset(e.integrator[1], Len(yin.val), jac # None)
             IN  /\ y' = yin.val
                 /\ yprime' = ypin.val
                 /\ t' = Some(tin)
                 /\ integrator' = Some(r.obj)
                 /\ last' = [NoCall EXCEPT
                               !.call = "set_initial_value",
                               !.raised = r.raised,
                               !.again = /\ ~e.built
                                         /\ last.call = "set_initial_value"
                                         /\ last.raised = "none"
                                         /\ r.raised = "none"
                                         /\ Len(yin.val) = Len(y),
                               !.recovered = /\ r.raised = "none"
                                             /\ e.integrator[1].success = 0,
                               !.defaulted =
                                   \/ r.obj.mu # e.integrator[1].mu
                                   \/ r.obj.ml # e.integrator[1].ml]
                 /\ hist' = IF r.raised = "none"
                            THEN [h EXCEPT !.clean = TRUE, !.ready = TRUE]
                            ELSE h
                 /\ UNCHANGED <<integrator_classes, jac>>

\* Mutant of solve_args: y and yprime change places.
solve_args_swapped(y_, yprime_, t_, t1) ==
    [y0 |-> yprime_, yprime0 |-> y_, t0 |-> t_, t1 |-> t1]

\* dae.solve, lines 341-343: the arguments (self.y, self.yprime, self.t, t)
\* the backend method is called with.
solve_args(y_, yprime_, t_, t1) ==
    [y0 |-> y_, yprime0 |-> yprime_, t0 |-> t_, t1 |-> t1]

\* dae.solve(t1, step, relax), with out the tuple the runner returns if the
\* call gets as far as the runner.
Solve(t1, step, relax) ==
    IF integrator = None
    THEN /\ last' = [NoCall EXCEPT !.call = "solve",
                                   !.raised = "AttributeError",
                                   !.step = step, !.relax = relax]
         /\ UNCHANGED <<integrator_classes, jac, y, yprime, t, integrator, hist>>
    ELSE \E out \in RunnerOutputs(solve_args(y, yprime, t[1], t1).y0,
                                   solve_args(y, yprime, t[1], t1).yprime0,
                                   solve_args(y, yprime, t[1], t1).t0,
                                   solve_args(y, yprime, t[1], t1).t1) :
         LET mth == solve_method(step, relax, supports_step, supports_run_relax)
             args == solve_args(y, yprime, t[1], t1)
             r == IF mth = "step" THEN ddaspk_step(integrator[1], args, out)
                  ELSE IF mth = "run_relax"
                  THEN base_run_relax(integrator[1], args, out)
                  ELSE ddaspk_run(integrator[1], args, out)
         IN  /\ integrator' = Some(r.obj)
             /\ IF r.raised = "none"
                THEN /\ y' = r.ret[1].y
                     /\ yprime' = r.ret[1].yprime
                     /\ t' = Some(r.ret[1].t)
                     /\ last' = [NoCall EXCEPT
                                   !.call = "solve",
                                   !.step = step, !.relax = relax,
                                   !.mth = mth,
                                   !.istate = out.istate,
                                   !.start = r.seen,
                                   !.ret = Some([y |-> out.y,
                                                 yprime |-> out.yprime,
                                                 t |-> out.t]),
                                   !.returned = Some(<<r.ret[1].y,
                                                       r.ret[1].yprime>>)]
                     /\ hist' =
                          LET ok == out.istate \in Accepted(mth)
                          IN  [hist EXCEPT !.solved = TRUE,
                                           !.clean = hist.clean /\ ok]
                ELSE /\ last' = [NoCall EXCEPT !.call = "solve",
                                               !.raised = r.raised,
                                               !.step = step, !.relax = relax,
                                               !.mth = mth]
                     /\ UNCHANGED <<y, yprime, t, hist>>
             /\ UNCHANGED <<integrator_classes, jac>>

\* dae.successful, line 350: the value returned for the selected instance b.
successful_value(b) == b.success = 1

\* dae.successful().
Successful ==
    LET e == IF integrator = None
             THEN set_integrator(<<>>, DefaultOptions)
             ELSE [raised |-> "none", built |-> FALSE,
                   integrator |-> integrator, y |-> y, t |-> t]
    IN  /\ integrator' = e.integrator
        /\ y' = e.y
        /\ t' = e.t
        /\ last' = [NoCall EXCEPT
                      !.call = "successful",
                      !.raised = IF e.integrator = None
                                 THEN "AttributeError" ELSE "none",
                      !.result = IF e.integrator = None THEN "none"
                                 ELSE IF successful_value(e.integrator[1])
                                 THEN "true" ELSE "false"]
        /\ hist' = IF e.built
                   THEN [hist EXCEPT !.clean = TRUE, !.ready = FALSE]
                   ELSE hist
        /\ UNCHANGED <<integrator_classes, jac, yprime>>

Next ==
    \/ \E c \in IntegratorCalls : SetIntegrator(c[1], c[2])
    \/ \E yin \in YInputs : \E ypin \in YPrimeInputs(yin) : \E tin \in TInputs :
          SetInitialValue(yin, ypin, tin)
    \/ \E t1 \in TTargets, step \in BOOLEAN, relax \in BOOLEAN :
          Solve(t1, step, relax)
    \/ Successful

Spec == Init /\ [][Next]_vars

\* The study of reset: a dispatcher on which set_integrator('', **o) has just
\* built a backend from one of ResetOptions or FlagOptions (lines 321-326:
\* t = 0.0 and
\* y = [0.0], yprime untouched), followed by calls of set_initial_value, each
\* of which is one reset(len(y), jac is not None).
InitReset ==
    /\ integrator_classes = <<ddaspk_name>>
    /\ jac \in {None, Some("jac")}
    /\ \E o \in ResetOptions \cup FlagOptions :
          /\ ddaspk_init(o).raised = "none"
          /\ integrator = ddaspk_init(o).obj
    /\ y = <<0>>
    /\ yprime = <<>>
    /\ t = Some(0)
    /\ last = [NoCall EXCEPT !.call = "set_integrator"]
    /\ hist = NoHist

NextReset ==
    \E yin \in YInputs : \E ypin \in YPrimeInputs(yin) : \E tin \in TInputs :
        SetInitialValue(yin, ypin, tin)

SpecReset == InitReset /\ [][NextReset]_vars

\* ----------------------------------------------------------------- claims

\* What successful() returns in the current state, when a backend is selected.
SuccessFlag == integrator # None /\ successful_value(integrator[1])

\* The last call was a solve that reached the runner.
RunnerReturned == last.call = "solve" /\ last.ret # None

\* C1 as stated: after a solve, successful() is true exactly when the status
\* of that most recent solve was accepted by the method used, also when an
\* earlier solve on the same backend had failed.
C1_LatestStatusDecides ==
    RunnerReturned => (SuccessFlag <=> last.istate \in Accepted(last.mth))

\* C1 amended: successful() is true exactly when every solve on the selected
\* instance since its construction or its last completed reset returned a
\* status accepted by the method used; an accepted solve after a failed one
\* leaves it false.
C1_AllStatusesDecide ==
    integrator # None => (SuccessFlag <=> hist.clean)

C1_Witness ==
    /\ RunnerReturned
    /\ last.istate \in Accepted(last.mth)
    /\ ~hist.clean
    /\ ~SuccessFlag

\* C2: when the runner returns a negative status, solve raises nothing,
\* successful() is false afterwards, and the dispatcher's (y, yprime, t) are
\* the values the runner returned.
C2_NegativeStatus ==
    (RunnerReturned /\ last.istate < 0) =>
        /\ last.raised = "none"
        /\ ~SuccessFlag
        /\ y = last.ret[1].y
        /\ yprime = last.ret[1].yprime
        /\ t = Some(last.ret[1].t)

\* A negative status on the first solve after set_initial_value([1, 1], ...):
\* y holds the runner's values, which no set_initial_value input contains.
C2_Witness ==
    /\ RunnerReturned
    /\ last.istate < 0
    /\ ~SuccessFlag
    /\ y = Fill(MaxN, 2)
    /\ yprime = Fill(MaxN, 2)

\* C3: the status is classified per operation, run accepting exactly {2, 3}
\* and step exactly {1, 2}: a solve whose runner returned leaves successful()
\* true iff it was true before and the status is in the set of the method
\* used, and it raises nothing whatever the status.
C3_PerOperationStatus ==
    [][ (last'.call = "solve" /\ last'.ret # None) =>
          /\ last'.raised = "none"
          /\ last'.mth \in {"run", "step"}
          /\ SuccessFlag' <=>
               (SuccessFlag /\ last'.istate \in
                    (IF last'.mth = "run" THEN {2, 3} ELSE {1, 2})) ]_vars

\* run was handed the status 1, which step accepts and run does not.
C3_Witness ==
    /\ RunnerReturned
    /\ last.mth = "run"
    /\ last.istate = 1
    /\ last.raised = "none"
    /\ ~SuccessFlag
    /\ hist.solved

\* C4: solve prefers step over relax over run, each only if the backend has
\* it; on ddaspk (step, no run_relax) solve(relax) calls run and raises no
\* NotImplementedError, and solve(step, relax) calls step.
C4_MethodPrecedence ==
    /\ \A s \in BOOLEAN, r \in BOOLEAN, cs \in BOOLEAN, cr \in BOOLEAN :
         /\ solve_method(s, r, cs, cr) = "step" <=> (s /\ cs)
         /\ solve_method(s, r, cs, cr) = "run_relax" <=>
                (~(s /\ cs) /\ r /\ cr)
         /\ solve_method(s, r, cs, cr) \in {"step", "run_relax", "run"}
    /\ (last.call = "solve" /\ integrator # None) =>
         /\ last.mth = (IF last.step THEN "step" ELSE "run")
         /\ last.raised # "NotImplementedError"
         /\ integrator[1].call_args # None => last.raised = "none"

C4_Witness ==
    /\ RunnerReturned
    /\ last.relax /\ ~last.step
    /\ last.mth = "run"
    /\ last.raised = "none"

\* C5: for every option set on which set_integrator and set_initial_value
\* succeed, as long as every solve since then returned a status accepted by
\* the method used, successful() is true after each of those solves.
C5_AcceptedSolves ==
    (RunnerReturned /\ hist.clean) => SuccessFlag

\* Per-component tolerances, a user Jacobian, and a second accepted solve.
C5_Witness ==
    /\ RunnerReturned
    /\ hist.clean
    /\ SuccessFlag
    /\ ~integrator[1].atol.isscalar
    /\ jac # None
    /\ y = Fill(MaxN, 2)
    /\ t = Some(MaxT)

\* atol and rtol are neither both scalars nor both sequences of one length.
ShapesDiffer(b) ==
    \/ b.atol.isscalar /\ ~b.rtol.isscalar
    \/ ~b.atol.isscalar /\ b.rtol.isscalar
    \/ ~b.atol.isscalar /\ ~b.rtol.isscalar
          /\ Len(b.atol.val) # Len(b.rtol.val)

\* C6 as stated: tolerances that are not both scalars or both sequences of
\* equal length are rejected when the backend is constructed, so no selected
\* backend holds such a pair and set_initial_value never has to reject it.
C6_RejectedByConstructor ==
    integrator # None => ~ShapesDiffer(integrator[1])

\* C7: successful() never raises, in particular right after
\* set_initial_value, and a registry lookup that finds no backend never ends
\* in a crash of set_initial_value or successful().
C7_NoCrash ==
    /\ last.call = "successful" => last.raised = "none"
    /\ last.call = "set_initial_value" => last.raised # "AttributeError"

\* C8 as stated: successful() called before any solve returns false, and the
\* flag is true only once a solve has completed.
C8_FalseBeforeSolve ==
    /\ (last.call = "successful" /\ last.raised = "none" /\ ~hist.solved) =>
           last.result = "false"
    /\ SuccessFlag => hist.solved

\* C8 amended: successful() called before any solve has occurred returns
\* true whenever it returns (a new instance and a reset instance both start
\* with the flag set); it is false only once a solve has completed with a
\* status that is not accepted.
C8_TrueBeforeSolve ==
    /\ (last.call = "successful" /\ last.raised = "none" /\ ~hist.solved) =>
           last.result = "true"
    /\ (integrator # None /\ ~hist.solved) => SuccessFlag
    /\ (integrator # None /\ ~SuccessFlag) => hist.solved /\ ~hist.clean

\* successful() right after set_integrator, with no reset and no solve.
C8_Witness ==
    /\ last.call = "successful"
    /\ last.result = "true"
    /\ ~hist.solved
    /\ integrator[1].call_args = None
    /\ integrator[1].order = 1

\* C9: set_integrator with a name no registered class matches raises
\* nothing and leaves the selected instance (options, control arrays,
\* success flag) and the dispatcher's (t, y, yprime) as they were, so the
\* next solve runs on that same instance.
C9_NoMatchFrame ==
    [][ (last'.call = "set_integrator" /\ last'.nomatch) =>
          /\ last'.raised = "none"
          /\ integrator' = integrator
          /\ y' = y /\ yprime' = yprime /\ t' = t ]_vars

\* An unmatched name after a failed solve on a configured, reset instance.
C9_Witness ==
    /\ last.call = "set_integrator"
    /\ last.nomatch
    /\ integrator_classes # <<>>
    /\ integrator # None
    /\ integrator[1].order = 1
    /\ integrator[1].call_args # None
    /\ ~SuccessFlag
    /\ y = Fill(MaxN, 2)

\* The options of instance b pass the four checks of the constructor.
OptionsValid(b) ==
    /\ b.order \in 1..5
    /\ b.nonneg \in {1, 3} => b.constraint_type # None
    /\ b.compute_initcond \in {0, 1, 2}
    /\ b.compute_initcond = 1 => b.algebraic_var # None

\* C10: an order outside 1..5, constraint_init without constraint_type, an
\* unknown compute_initcond and the mode 'yode0' without algebraic_var are
\* raised by the set_integrator call that passes them, which leaves the
\* selected instance and (t, y, yprime) as they were; no instance that fails
\* one of these checks is ever selected, so none is raised later.
C10_OptionErrors ==
    [][ /\ (last'.call = "set_integrator" /\ ~last'.nomatch
              /\ last'.bad # "none") =>
              /\ last'.raised = "ValueError"
              /\ integrator' = integrator
              /\ y' = y /\ yprime' = yprime /\ t' = t
        /\ integrator' # None => OptionsValid(integrator'[1]) ]_vars

\* An order out of range, refused while a reset instance is selected.
C10_Witness ==
    /\ last.call = "set_integrator"
    /\ last.bad = "order"
    /\ ~last.nomatch
    /\ last.raised = "ValueError"
    /\ integrator # None
    /\ integrator[1].call_args # None
    /\ integrator[1].compute_initcond = 1

\* C11 as stated: on a backend built with the mode 'derive y from yprime'
\* (compute_initcond 'yprime0', mode 2) and no role vector, construction and
\* every later reset complete without error, so no set_initial_value on it
\* raises.
C11_ResetWithoutRoles ==
    ( /\ integrator # None
      /\ integrator[1].compute_initcond = 2
      /\ integrator[1].algebraic_var = None
      /\ last.call = "set_initial_value" )
    => last.raised = "none"

\* The last call was a set_initial_value whose reset ran to its end.
ResetCompleted == last.call = "set_initial_value" /\ last.raised = "none"

\* C12: after a reset for n >= 1 the real-work array has 50 + max(order+4, 7)*n
\* elements plus n*n when dense, (2*lband+uband+1)*n + 2*(n div
\* (lband+uband+1) + 1) when banded without a user Jacobian, (2*lband+uband+1)*n
\* when banded with one; the integer-work array has 40 + n elements, plus n
\* with init-constraint checking (mode 1 or 3), plus n with init-condition
\* computation.
C12_WorkLengths ==
    (ResetCompleted /\ Len(y) >= 1) =>
        LET b == integrator[1]
            n == Len(y)
            dense == b.ml = None /\ b.mu = None
            lband == b.ml[1]
            uband == b.mu[1]
        IN  /\ Len(b.rwork) =
                 50 + (IF b.order + 4 > 7 THEN b.order + 4 ELSE 7) * n
                    + (IF dense THEN n * n
                       ELSE IF jac = None
                       THEN (2 * lband + uband + 1) * n
                              + 2 * ((n \div (lband + uband + 1)) + 1)
                       ELSE (2 * lband + uband + 1) * n)
            /\ Len(b.iwork) =
                 40 + n + (IF b.nonneg \in {1, 3} THEN n ELSE 0)
                        + (IF b.compute_initcond \in {1, 2} THEN n ELSE 0)

C12_Witness ==
    /\ ResetCompleted
    /\ Len(y) = MaxN
    /\ jac # None
    /\ integrator[1].ml = Some(MaxBand)
    /\ integrator[1].mu = Some(0)
    /\ integrator[1].order = 2
    /\ integrator[1].nonneg = 3
    /\ integrator[1].compute_initcond = 1

\* The lengths reset computes on the selected instance for problem size n,
\* order k and half-bandwidths ml, mu, every other option and the Jacobian
\* setting being those of the reset that has just completed.
LrwFor(n, k, ml, mu) == reset_lrw(n, k, ml, mu, integrator[1].info)
LiwFor(n) ==
    reset_liw(n, integrator[1].nonneg, integrator[1].compute_initcond)

\* C13 as stated: with every other option fixed, neither work length gets
\* smaller when n, the order (up to 5) or either half-bandwidth is raised by
\* one, in each of the three Jacobian-structure branches.
C13_Monotone ==
    ResetCompleted =>
        LET b == integrator[1]
            n == Len(y)
            lrw == Len(b.rwork)
            liw == Len(b.iwork)
        IN  /\ lrw <= LrwFor(n + 1, b.order, b.ml, b.mu)
            /\ liw <= LiwFor(n + 1)
            /\ b.order < 5 => lrw <= LrwFor(n, b.order + 1, b.ml, b.mu)
            /\ b.ml # None =>
                 /\ lrw <= LrwFor(n, b.order, Some(b.ml[1] + 1), b.mu)
                 /\ lrw <= LrwFor(n, b.order, b.ml, Some(b.mu[1] + 1))

\* C13 amended: neither work length gets smaller when n, the order or lband
\* is raised by one, in every branch, nor when uband is raised by one, except
\* in the branch banded without a user Jacobian when lband = uband = 0 and n
\* is odd: there raising uband to 1 makes the real-work length smaller by one.
C13_MonotoneButUband ==
    ResetCompleted =>
        LET b == integrator[1]
            n == Len(y)
            lrw == Len(b.rwork)
            liw == Len(b.iwork)
        IN  /\ lrw <= LrwFor(n + 1, b.order, b.ml, b.mu)
            /\ liw <= LiwFor(n + 1)
            /\ b.order < 5 => lrw <= LrwFor(n, b.order + 1, b.ml, b.mu)
            /\ b.ml # None =>
                 /\ lrw <= LrwFor(n, b.order, Some(b.ml[1] + 1), b.mu)
                 /\ IF jac = None /\ b.ml[1] = 0 /\ b.mu[1] = 0 /\ n % 2 = 1
                    THEN LrwFor(n, b.order, b.ml, Some(b.mu[1] + 1)) = lrw - 1
                    ELSE lrw <= LrwFor(n, b.order, b.ml, Some(b.mu[1] + 1))

C13_Witness ==
    /\ ResetCompleted
    /\ jac = None
    /\ Len(y) = 1
    /\ integrator[1].ml = Some(0)
    /\ integrator[1].mu = Some(0)
    /\ Len(integrator[1].rwork) > LrwFor(1, integrator[1].order, Some(0), Some(1))

\* C14: a reset that directly follows a completed reset on the same instance
\* with the same n and the same Jacobian setting leaves info, rwork, iwork and
\* the stored half-bandwidths as the first reset left them, also when only
\* one of lband, uband was given to the constructor.
C14_ResetIdempotent ==
    [][ ( /\ ResetCompleted
          /\ Len(y) > 0
          /\ ResetCompleted'
          /\ Len(y') = Len(y) )
        => /\ integrator'[1].info = integrator[1].info
           /\ integrator'[1].rwork = integrator[1].rwork
           /\ integrator'[1].iwork = integrator[1].iwork
           /\ integrator'[1].mu = integrator[1].mu
           /\ integrator'[1].ml = integrator[1].ml
           /\ integrator'[1].call_args = integrator[1].call_args ]_vars

C14_Witness ==
    /\ ResetCompleted
    /\ last.again
    /\ Len(y) = MaxN
    /\ integrator[1].ml = Some(MaxBand)
    /\ integrator[1].mu = Some(0)
    /\ integrator[1].info[6] = 1

\* C15: a solve that reaches the runner hands it the dispatcher's current y,
\* yprime and t, assigns the runner's result to all three and returns the new
\* (y, yprime); so a solve that directly follows another starts from what that
\* one returned, whether its status was accepted or not.
C15_SolveChains ==
    [][ (last'.call = "solve" /\ last'.ret # None)
        => /\ last'.start[1].y0 = y
           /\ last'.start[1].yprime0 = yprime
           /\ last'.start[1].t0 = t[1]
           /\ y' = last'.ret[1].y
           /\ yprime' = last'.ret[1].yprime
           /\ t' = Some(last'.ret[1].t)
           /\ last'.returned = Some(<<y', yprime'>>)
           /\ RunnerReturned =>
                /\ last'.start[1].y0 = last.ret[1].y
                /\ last'.start[1].yprime0 = last.ret[1].yprime
                /\ last'.start[1].t0 = last.ret[1].t ]_vars

\* A solve that started from the result of a solve whose status was not
\* accepted: y holds runner values while t is still the initial time.
C15_Witness ==
    /\ RunnerReturned
    /\ Len(y) = MaxN
    /\ last.start[1].y0 = Fill(MaxN, 2)
    /\ last.start[1].yprime0 = Fill(MaxN, 2)
    /\ last.start[1].t0 = 0
    /\ last.ret[1].t = 1
    /\ y = last.ret[1].y
    /\ ~hist.clean

\* C16: every set_initial_value whose reset runs to its end leaves the success
\* flag of the selected backend set, also after a failed solve, and a
\* successful() that directly follows it returns true.
C16_ResetRestoresSuccess ==
    [][ /\ ResetCompleted' => SuccessFlag'
        /\ (ResetCompleted /\ last'.call = "successful")
             => last'.result = "true" ]_vars

C16_Witness ==
    /\ ResetCompleted
    /\ last.recovered
    /\ hist.solved
    /\ SuccessFlag

\* C17 as stated: in every solve that reaches the runner, the runner sees
\* info[2] = 1 when it is called from step and 0 when it is called from run;
\* when the call has returned info[2] is 0 and the flag vector, of the
\* instance and of the arguments kept for the runner, is as it was before
\* the call, that is as the last reset left it.
C17_TransientBit ==
    [][ (last'.call = "solve" /\ last'.ret # None)
        => /\ last'.start[1].onestep = (IF last'.mth = "step" THEN 1 ELSE 0)
           /\ integrator'[1].info[3] = 0
           /\ integrator'[1].info = integrator[1].info
           /\ integrator'[1].call_args[1].info = integrator[1].call_args[1].info
      ]_vars

\* C18 as stated: whenever a backend instance is selected, y and yprime have
\* the same length.
C18_SameLength ==
    integrator # None => Len(y) = Len(yprime)

\* C19: a solve invokes the runner only on an instance on which a reset has
\* run to its end since set_integrator constructed it, and on such an
\* instance every solve invokes it; in particular the solve that directly
\* follows a run or step whose status was not accepted invokes the runner
\* again.
C19_Lifecycle ==
    [][ last'.call = "solve"
        => /\ last'.ret # None <=> hist.ready
           /\ (RunnerReturned /\ last.istate \notin Accepted(last.mth))
                => last'.ret # None ]_vars

\* A step that reached the runner directly after a solve that had failed on
\* the same instance.
C19_Witness ==
    /\ RunnerReturned
    /\ hist.ready
    /\ ~hist.clean
    /\ last.mth = "step"
    /\ last.istate = 1
    /\ last.start[1].y0 = Fill(1, 2)
    /\ last.start[1].t0 = 0

\* C20: after a reset for n components, with lid = 40 + n when init-constraint
\* checking is on (mode 1 or 3) and lid = 40 otherwise: iwork[40:40+n] holds
\* the constraint kinds (an int for all components, or one per component)
\* exactly when the checking is on; iwork[lid:lid+n] holds the roles when an
\* init-condition mode is on; both ranges end within iwork; every element
\* from 40 on that is in neither range is 0, so neither vector is written
\* over the other.
C20_IworkLayout ==
    ResetCompleted =>
        LET b == integrator[1]
            n == Len(y)
            iw == b.iwork
            constrained == b.nonneg \in {1, 3}
            roles == b.compute_initcond \in {1, 2}
            lid == IF constrained THEN 40 + n ELSE 40
            kind(i) == IF b.constraint_type[1].isscalar
                       THEN b.constraint_type[1].val[1]
                       ELSE b.constraint_type[1].val[i]
            role(i) == IF Len(b.algebraic_var[1]) = 1
                       THEN b.algebraic_var[1][1]
                       ELSE b.algebraic_var[1][i]
        IN  /\ constrained => 40 + n <= Len(iw)
            /\ roles => lid + n <= Len(iw)
            /\ \A p \in 40..(Len(iw) - 1) :
                 iw[p + 1] =
                    IF constrained /\ p < 40 + n THEN kind(p - 40 + 1)
                    ELSE IF roles /\ p >= lid /\ p < lid + n
                    THEN role(p - lid + 1)
                    ELSE 0

C20_Witness ==
    /\ ResetCompleted
    /\ Len(y) = MaxN
    /\ integrator[1].nonneg = 3
    /\ integrator[1].compute_initcond = 2
    /\ integrator[1].constraint_type = Some(Scalar(2))
    /\ integrator[1].iwork[40 + MaxN] = 2
    /\ integrator[1].iwork[40 + MaxN + 1] = 1
    /\ integrator[1].iwork[40 + MaxN + 2] = -1
    /\ Len(integrator[1].iwork) = 40 + 3 * MaxN

\* C21: after a reset, info[1] is 1 iff the tolerances are sequences, info[4]
\* iff a Jacobian is given, info[3] iff tcrit is given and then rwork[0] is
\* tcrit, info[6] iff max_step > 0 and then rwork[1] is max_step, info[7] iff
\* first_step > 0 and then rwork[2] is first_step, info[8] iff order < 5 and
\* then iwork[2] is the order; info[9] is the nonnegativity mode 0..3 and
\* info[10] the init-condition mode 0..2; a slot whose flag is 0 holds 0.
C21_FlagsMatchArrays ==
    ResetCompleted =>
        LET b == integrator[1]
            flag(i) == b.info[i + 1]
            bit(c) == IF c THEN 1 ELSE 0
        IN  /\ flag(1) = bit(~b.atol.isscalar /\ ~b.rtol.isscalar)
            /\ flag(4) = bit(jac # None)
            /\ flag(3) = bit(b.tcrit # None)
            /\ b.rwork[1] = (IF b.tcrit # None THEN b.tcrit[1] ELSE 0)
            /\ flag(6) = bit(b.max_step > 0)
            /\ b.rwork[2] = (IF b.max_step > 0 THEN b.max_step ELSE 0)
            /\ flag(7) = bit(b.first_step > 0)
            /\ b.rwork[3] = (IF b.first_step > 0 THEN b.first_step ELSE 0)
            /\ flag(8) = bit(b.order < 5)
            /\ b.iwork[3] = (IF b.order < 5 THEN b.order ELSE 0)
            /\ flag(9) = b.nonneg /\ b.nonneg \in 0..3
            /\ flag(10) = b.compute_initcond /\ b.compute_initcond \in 0..2
            /\ flag(2) = 0
            /\ b.call_args[1].info = b.info
            /\ b.call_args[1].rwork = b.rwork
            /\ b.call_args[1].iwork = b.iwork

C21_Witness ==
    /\ ResetCompleted
    /\ Len(y) = MaxN
    /\ jac # None
    /\ ~integrator[1].atol.isscalar
    /\ integrator[1].tcrit = Some(2)
    /\ integrator[1].max_step = 3
    /\ integrator[1].first_step = 0
    /\ integrator[1].order = 4
    /\ integrator[1].rwork[1] = 2
    /\ integrator[1].rwork[2] = 3
    /\ integrator[1].rwork[3] = 0
    /\ integrator[1].iwork[3] = 4

\* C22 as stated: a reset for n components on a backend whose tolerances are
\* sequences of another length than n is rejected with a ValueError.
C22_ToleranceLengthChecked ==
    ( /\ integrator # None
      /\ last.call = "set_initial_value"
      /\ ~integrator[1].atol.isscalar
      /\ ~integrator[1].rtol.isscalar
      /\ ( Len(integrator[1].atol.val) # Len(y)
           \/ Len(integrator[1].rtol.val) # Len(y) ) )
    => last.raised = "ValueError"

\* The first reset on the instance set_integrator has constructed, whose ml and
\* mu are still the lband and uband given to the constructor, runs to its end.
FirstReset ==
    /\ integrator # None
    /\ integrator[1].info = None
    /\ Len(y) > 0
    /\ ResetCompleted'

\* C23 as stated: the banded flag info[5] is set by reset exactly when lband
\* and uband are both given, and with both absent the flag stays 0 and the
\* dense n*n term is used: one half-bandwidth alone does not make the matrix
\* banded.
C23_BandedIffBoth ==
    [][ FirstReset =>
          LET lband == integrator[1].ml
              uband == integrator[1].mu
              b == integrator'[1]
              n == Len(y')
          IN  /\ b.info[6] = 1 <=> (lband # None /\ uband # None)
              /\ (lband = None /\ uband = None) =>
                   /\ b.info[6] = 0
                   /\ Len(b.rwork) = 50 + Max(b.order + 4, 7) * n + n * n
      ]_vars

\* C23 amended: the matrix is dense exactly when lband and uband are both
\* absent, and banded as soon as one of them is given, the other one then
\* being taken as 0: reset sets info[5], stores the two half-bandwidths in
\* iwork[0], iwork[1] and in the instance, and uses the banded work length;
\* with both absent info[5], iwork[0] and iwork[1] stay 0 and the dense n*n
\* term is used.
C23_BandedIffEither ==
    [][ FirstReset =>
          LET lband == integrator[1].ml
              uband == integrator[1].mu
              l == IF lband = None THEN 0 ELSE lband[1]
              u == IF uband = None THEN 0 ELSE uband[1]
              b == integrator'[1]
              n == Len(y')
              base == 50 + Max(b.order + 4, 7) * n
          IN  IF lband = None /\ uband = None
              THEN /\ b.info[6] = 0
                   /\ b.iwork[1] = 0 /\ b.iwork[2] = 0
                   /\ b.ml = None /\ b.mu = None
                   /\ Len(b.rwork) = base + n * n
              ELSE /\ b.info[6] = 1
                   /\ b.iwork[1] = l /\ b.iwork[2] = u
                   /\ b.ml = Some(l) /\ b.mu = Some(u)
                   /\ Len(b.rwork) =
                        base + (2 * l + u + 1) * n
                             + (IF jac = None
                                THEN 2 * ((n \div (l + u + 1)) + 1) ELSE 0)
      ]_vars

\* A reset that found uband alone and took lband as 0.
C23_Witness ==
    /\ ResetCompleted
    /\ last.defaulted
    /\ Len(y) = MaxN
    /\ integrator[1].info[6] = 1
    /\ integrator[1].ml = Some(0)
    /\ integrator[1].mu = Some(MaxBand)
    /\ integrator[1].iwork[1] = 0
    /\ integrator[1].iwork[2] = MaxBand

\* The options the constructor of ddaspk stores and reset leaves alone.
StoredOptions(b) ==
    [ rtol |-> b.rtol, atol |-> b.atol, tcrit |-> b.tcrit, order |-> b.order,
      nsteps |-> b.nsteps, max_step |-> b.max_step,
      first_step |-> b.first_step, nonneg |-> b.nonneg,
      constraint_type |-> b.constraint_type,
      compute_initcond |-> b.compute_initcond,
      algebraic_var |-> b.algebraic_var ]

\* C24: set_initial_value selects the default backend only if no backend is
\* selected: once set_integrator has selected a backend, every later
\* set_initial_value keeps that backend and the options it was constructed
\* with.
C24_KeepsBackend ==
    [][ (integrator # None /\ last'.call = "set_initial_value") =>
          /\ integrator' # None
          /\ StoredOptions(integrator'[1]) = StoredOptions(integrator[1])
      ]_vars

\* C25: the success flag is sticky between resets. While successful() is
\* false on the selected backend, a solve (whatever the runner returns, and
\* also when the call raises) and a call of successful leave it false; it
\* becomes true again only by a set_initial_value whose reset ran to its end
\* or by a set_integrator that constructed a new backend.
C25_StickyFlag ==
    [][ (integrator # None /\ ~SuccessFlag) =>
          /\ last'.call \in {"solve", "successful"} => ~SuccessFlag'
          /\ SuccessFlag' =>
               \/ ResetCompleted'
               \/ /\ last'.call = "set_integrator"
                  /\ last'.raised = "none"
                  /\ ~last'.nomatch
      ]_vars

\* A step the runner ended with the status 1, accepted by step, on a backend
\* whose flag an earlier solve has cleared: successful() is still false.
C25_Witness ==
    /\ RunnerReturned
    /\ last.mth = "step"
    /\ last.istate = 1
    /\ hist.solved
    /\ ~SuccessFlag

====
